---- MODULE Spec2Model ----
(***************************************************************************)
(* The attendance reconciliation of the admin dashboard                    *)
(* (src/app/admin/index.tsx): the React state of AdminDashboard, the       *)
(* fetches that replace the raw snapshots, and the effect that rebuilds    *)
(* the paired sessions, the per-user totals and the dashboard statistics   *)
(* from them.                                                              *)
(*                                                                         *)
(* Representation.                                                         *)
(*  - A timestamp is its epoch value in milliseconds                       *)
(*    (new Date(ts).getTime()); a missing or unparseable timestamp is NaN, *)
(*    the time value of an Invalid Date.                                   *)
(*  - A locale date string (toLocaleDateString) is the number of the local *)
(*    calendar day it names; InvalidDate is the string "Invalid Date".     *)
(*  - An attendance record object carries `id`, its position in the query  *)
(*    result that created it: two records are the same object iff they     *)
(*    are equal, as in the code's find/indexOf on object references.       *)
(*  - A nullable reference is a sequence of length 0 (null) or 1.          *)
(*  - avgHoursToday is held in tenths of an hour (20 is 2.0).              *)
(***************************************************************************)
EXTENDS Integers, Sequences, FiniteSets, TLC

\* Largest number of events of a first load (SpecLoaded), and largest number
\* of documents of the attendance collection while the screen is followed
\* through its fetches (Spec).
MaxEvents == 4
MaxDocs == 3

\* Largest number of events with an unparseable timestamp in a first load
\* (SpecInvalid).
MaxInvalidEvents == 2

\* Largest number of events of a first load whose events are all of one
\* user and one day (SpecDay).
MaxDayEvents == 4

\* Largest number of documents of the attendance collection while the screen
\* is followed from its mounting through the access check (SpecAccess).
MaxAccessDocs == 1

\* Largest number of events of a first load that is compared with every
\* other order of arrival of its events (SpecArrival).
MaxArrivals == 3

\* 1000 * 60, the divisor of the duration computation.
MinuteMs == 60000

\* Length of a calendar day and the offset of the device's time zone
\* (UTC+05:30), the two quantities toLocaleDateString depends on.
DayMs == 86400000
TzOffsetMs == 19800000

\* The timestamps of the documents: local 21:50:00, 21:52:30 and 23:50:00 of
\* day 1, 00:10:00 and 01:40:00 of day 2.
At == <<145200000, 145350000, 152400000, 153600000, 159000000>>

\* The local calendar days the device's clock shows while the screen is open.
Days == {1, 2}

\* new Date(x).getTime() when x is undefined or a string Date cannot parse.
NaN == -1

\* toLocaleDateString() of an Invalid Date: the string "Invalid Date".
InvalidDate == 0

Types == {"check-in", "check-out"}

\* The documents of the attendance collection are drawn from these: u1
\* punches either way at the first four times and checks out at the fifth;
\* u2 checks in at the first time and checks out at the third.
Docs ==
    { [ userId |-> "u1", type |-> ty, timestamp |-> At[i] ] :
        ty \in Types, i \in 1..4 }
    \cup { [ userId |-> "u1", type |-> "check-out", timestamp |-> At[5] ],
           [ userId |-> "u2", type |-> "check-in", timestamp |-> At[1] ],
           [ userId |-> "u2", type |-> "check-out", timestamp |-> At[3] ] }

\* Four times of day 1, local 21:50:00, 21:52:30, 22:30:00 and 23:50:00, and
\* the documents of u1 punching either way at each of them: a bucket in
\* which two check-ins and two check-outs can all differ in time.
DayAt == <<At[1], At[2], 147600000, At[3]>>

DayDocs ==
    { [ userId |-> "u1", type |-> ty, timestamp |-> DayAt[i] ] :
        ty \in Types, i \in DOMAIN DayAt }

\* Documents whose timestamp field Date cannot parse.
InvalidDocs ==
    { [ userId |-> "u1", type |-> ty, timestamp |-> NaN ] : ty \in Types }

\* The documents of the users collection.
UserDocs ==
    { [id |-> "u1", checkedIn |-> TRUE],
      [id |-> "u2", checkedIn |-> FALSE],
      [id |-> "u3", checkedIn |-> TRUE] }

\* The rosters fetchUsers returns: none yet, a roster without u2, everyone.
Rosters ==
    { {},
      {d \in UserDocs : d.id # "u2"},
      UserDocs }

VARIABLES
    attendanceRecords,    \* useState<AttendanceRecord[]>: the raw events
    users,                \* useState<User[]>: the roster
    processedAttendance,  \* useState<ProcessedAttendanceRecord[]>
    userStats,            \* useState<Record<string, UserStats>>
    dashboardStats,       \* useState<DashboardStats>
    today,                \* the date the clock showed at the latest run
    dateParses,           \* whether Date parses this device's locale dates
    access                \* the access check, the signed-in user's document
                          \* and the fetches in flight

vars == <<attendanceRecords, users, processedAttendance, userStats,
          dashboardStats, today, dateParses, access>>

-----------------------------------------------------------------------------
(* Generic helpers *)

Min(S) == CHOOSE x \in S : \A y \in S : x <= y

Front(s) == SubSeq(s, 1, Len(s) - 1)

Last(s) == s[Len(s)]

RemoveAt(s, j) == SubSeq(s, 1, j - 1) \o SubSeq(s, j + 1, Len(s))

\* The distinct elements of s, in the order of their first occurrence: the
\* key order of an object whose keys are inserted while scanning s.
RECURSIVE KeysInOrder(_)
KeysInOrder(s) ==
    IF s = <<>> THEN <<>>
    ELSE LET rest == KeysInOrder(Front(s))
         IN  IF \E i \in 1..Len(rest) : rest[i] = Last(s)
             THEN rest
             ELSE Append(rest, Last(s))

-----------------------------------------------------------------------------
(* Dates and durations *)

\* new Date(timestamp).toLocaleDateString(): the local calendar day, and
\* "Invalid Date" for a timestamp Date cannot parse.
ToLocaleDateString(ts) ==
    IF ts = NaN THEN InvalidDate ELSE (ts + TzOffsetMs) \div DayMs

\* new Date(date).getTime() of a locale date string. The format of the
\* string is the locale's and Date parses formats other than ISO 8601 by
\* heuristics of the engine: where it reads the locale's format ("1/31/2024",
\* en-US) the result is local midnight of that day, where it does not
\* ("31/1/2024", "31.1.2024") it is NaN, as for "Invalid Date"; parses tells
\* which of the two holds of the device.
ParseDate(date, parses) ==
    IF parses /\ date # InvalidDate
    THEN date * DayMs - TzOffsetMs
    ELSE NaN

\* Variant of DurationMinutes: the quotient truncated instead of rounded.
DurationMinutesTruncated(checkInTime, checkOutTime) ==
    (checkOutTime - checkInTime) \div MinuteMs

\* Math.round(durationMs / (1000 * 60)): halves round up.
DurationMinutes(checkInTime, checkOutTime) ==
    (2 * (checkOutTime - checkInTime) + MinuteMs) \div (2 * MinuteMs)

-----------------------------------------------------------------------------
(* Grouping: recordsByUserAndDate *)

\* Object.keys(recordsByUserAndDate): the user ids in the order in which the
\* forEach over attendanceRecords first meets them.
UserKeys(records) ==
    KeysInOrder([i \in 1..Len(records) |-> records[i].userId])

\* Object.keys(recordsByUserAndDate[userId]): that user's dates, likewise.
DateKeys(records, userId) ==
    LET own == SelectSeq(records, LAMBDA r : r.userId = userId)
    IN  KeysInOrder([i \in 1..Len(own) |->
                        ToLocaleDateString(own[i].timestamp)])

\* Variant of Bucket: the records grouped by user only.
BucketByUser(records, userId, date) ==
    SelectSeq(records, LAMBDA r : r.userId = userId)

\* recordsByUserAndDate[userId][date]: the records pushed to that bucket, in
\* the order of attendanceRecords.
Bucket(records, userId, date) ==
    SelectSeq(records,
              LAMBDA r : r.userId = userId
                         /\ ToLocaleDateString(r.timestamp) = date)

-----------------------------------------------------------------------------
(* Pairing: one (user, day) bucket *)

\* timeA - timeB as sort reads it: a comparator's NaN counts as 0.
CompareTimes(timeA, timeB) ==
    IF timeA = NaN \/ timeB = NaN THEN 0 ELSE timeA - timeB

\* timeA > timeB, false when either is NaN.
Later(timeA, timeB) == timeA # NaN /\ timeB # NaN /\ timeA > timeB

\* Variant of InsertByTimestamp: x goes to the end, so that the bucket stays
\* in the order in which its records were pushed.
InsertByTimestampAtEnd(s, x) == Append(s, x)

\* Variant of InsertByTimestamp: x goes before the elements that compare
\* equal to it, which reverses the input order of equal timestamps.
InsertByTimestampBeforeEqual(s, x) ==
    LET k == Cardinality({i \in 1..Len(s) :
                             CompareTimes(s[i].timestamp, x.timestamp) < 0})
    IN  SubSeq(s, 1, k) \o <<x>> \o SubSeq(s, k + 1, Len(s))

\* x placed behind every element the comparator does not put after it.
InsertByTimestamp(s, x) ==
    LET k == Cardinality({i \in 1..Len(s) :
                             CompareTimes(s[i].timestamp, x.timestamp) <= 0})
    IN  SubSeq(s, 1, k) \o <<x>> \o SubSeq(s, k + 1, Len(s))

\* dayRecords.sort((a, b) => time(a) - time(b)): ascending and stable.
RECURSIVE SortByTimestamp(_)
SortByTimestamp(s) ==
    IF s = <<>> THEN <<>>
    ELSE InsertByTimestamp(SortByTimestamp(Front(s)), Last(s))

\* Variant of FindCheckOut: only the element that follows the check-in in
\* dayRecords is looked at.
FindCheckOutAdjacent(dayRecords, record) ==
    LET hits == {j \in 2..Len(dayRecords) :
                    /\ dayRecords[j - 1] = record
                    /\ dayRecords[j].type = "check-out"
                    /\ Later(dayRecords[j].timestamp, record.timestamp)}
    IN  IF hits = {} THEN 0 ELSE Min(hits)

\* Variant of FindCheckOut: the last later check-out instead of the first.
FindCheckOutLatest(dayRecords, record) ==
    LET hits == {j \in 1..Len(dayRecords) :
                    /\ dayRecords[j].type = "check-out"
                    /\ Later(dayRecords[j].timestamp, record.timestamp)}
    IN  IF hits = {} THEN 0 ELSE CHOOSE j \in hits : \A k \in hits : k <= j

\* dayRecords.find(r => r.type === 'check-out' && time(r) > time(record)),
\* as the index of the element found, 0 when find returns undefined.
FindCheckOut(dayRecords, record) ==
    LET hits == {j \in 1..Len(dayRecords) :
                    /\ dayRecords[j].type = "check-out"
                    /\ Later(dayRecords[j].timestamp, record.timestamp)}
    IN  IF hits = {} THEN 0 ELSE Min(hits)

\* Variant of CheckInEntry: the check-in is recorded only when it is matched.
CheckInEntryOnlyWhenMatched(userId, date, record, dayRecords, j) ==
    [ userId   |-> userId,
      date     |-> date,
      checkIn  |-> IF j = 0 THEN <<>> ELSE <<record>>,
      checkOut |-> IF j = 0 THEN <<>> ELSE <<dayRecords[j]>>,
      duration |-> IF j = 0 THEN <<>>
                   ELSE <<DurationMinutes(record.timestamp,
                                          dayRecords[j].timestamp)>> ]

\* The entry built for a check-in and its matching check-out (j = 0: none).
CheckInEntry(userId, date, record, dayRecords, j) ==
    [ userId   |-> userId,
      date     |-> date,
      checkIn  |-> <<record>>,
      checkOut |-> IF j = 0 THEN <<>> ELSE <<dayRecords[j]>>,
      duration |-> IF j = 0 THEN <<>>
                   ELSE <<DurationMinutes(record.timestamp,
                                          dayRecords[j].timestamp)>> ]

\* The entry built for a check-out no check-in has claimed.
CheckOutEntry(userId, date, record) ==
    [ userId   |-> userId,
      date     |-> date,
      checkIn  |-> <<>>,
      checkOut |-> <<record>>,
      duration |-> <<>> ]

\* The minutes an entry adds to a total.
Minutes(entry) == IF entry.duration = <<>> THEN 0 ELSE entry.duration[1]

\* Variant of Splice: the matched check-out stays in dayRecords.
SpliceNothing(dayRecords, j) == dayRecords

\* if (matchingCheckOut) { dayRecords.splice(index, 1) }: the check-out found
\* at index j (0: none found) is taken out of dayRecords.
Splice(dayRecords, j) ==
    IF j = 0 THEN dayRecords ELSE RemoveAt(dayRecords, j)

\* Variant of AddToday: the date of the bucket is not compared with today.
AddTodayAlways(date, now, mToday, minutes) == mToday + minutes

\* if (date === today) { userTotalMinutesToday += durationMinutes }
AddToday(date, now, mToday, minutes) ==
    IF date = now THEN mToday + minutes ELSE mToday

\* Variant of AddAllTime: a duration of today is added to today's total only.
AddAllTimeUnlessToday(date, now, mAll, minutes) ==
    IF date = now THEN mAll ELSE mAll + minutes

\* userTotalMinutesAllTime += durationMinutes, whatever the date.
AddAllTime(date, now, mAll, minutes) == mAll + minutes

\* The for loop over dayRecords from index i on: acc is checkInsAndOuts,
\* mToday and mAll the user's two running totals. A matched check-out is
\* spliced out of dayRecords while the loop runs.
RECURSIVE PairLoop(_, _, _, _, _, _, _, _)
PairLoop(dayRecords, i, acc, userId, date, now, mToday, mAll) ==
    IF i > Len(dayRecords)
    THEN [ dayRecords |-> dayRecords, checkInsAndOuts |-> acc,
           minutesToday |-> mToday, minutesAllTime |-> mAll ]
    ELSE IF dayRecords[i].type = "check-in"
    THEN LET j     == FindCheckOut(dayRecords, dayRecords[i])
             entry == CheckInEntry(userId, date, dayRecords[i], dayRecords, j)
             rest  == Splice(dayRecords, j)
         IN  PairLoop(rest, i + 1, Append(acc, entry), userId, date, now,
                      AddToday(date, now, mToday, Minutes(entry)),
                      AddAllTime(date, now, mAll, Minutes(entry)))
    ELSE PairLoop(dayRecords, i + 1, acc, userId, date, now, mToday, mAll)

\* Variant of Orphans: the second loop starts at the second element.
OrphansAfterFirst(dayRecords, userId, date) ==
    LET left == SelectSeq(SubSeq(dayRecords, 2, Len(dayRecords)),
                          LAMBDA r : r.type = "check-out")
    IN  [i \in 1..Len(left) |-> CheckOutEntry(userId, date, left[i])]

\* The second loop: the check-outs left in dayRecords, in order.
Orphans(dayRecords, userId, date) ==
    LET left == SelectSeq(dayRecords, LAMBDA r : r.type = "check-out")
    IN  [i \in 1..Len(left) |-> CheckOutEntry(userId, date, left[i])]

\* One iteration of the forEach over a user's dates.
ProcessDay(records, userId, date, now, mToday, mAll) ==
    LET sorted == SortByTimestamp(Bucket(records, userId, date))
        paired == PairLoop(sorted, 1, <<>>, userId, date, now, mToday, mAll)
    IN  [ checkInsAndOuts |->
              paired.checkInsAndOuts
                  \o Orphans(paired.dayRecords, userId, date),
          minutesToday   |-> paired.minutesToday,
          minutesAllTime |-> paired.minutesAllTime ]

\* The forEach over Object.keys(recordsByUserAndDate[userId]).
RECURSIVE ProcessDates(_, _, _, _)
ProcessDates(records, userId, dates, now) ==
    IF dates = <<>>
    THEN [ processed |-> <<>>, minutesToday |-> 0, minutesAllTime |-> 0 ]
    ELSE LET prev == ProcessDates(records, userId, Front(dates), now)
             day  == ProcessDay(records, userId, Last(dates), now,
                                prev.minutesToday, prev.minutesAllTime)
         IN  [ processed      |-> prev.processed \o day.checkInsAndOuts,
               minutesToday   |-> day.minutesToday,
               minutesAllTime |-> day.minutesAllTime ]

-----------------------------------------------------------------------------
(* Aggregation: the forEach over the users that have records *)

\* Math.floor(m / 60) + (m % 60) / 60, kept as whole hours and sixtieths.
HoursOf(minutes) == [ whole |-> minutes \div 60, sixtieths |-> minutes % 60 ]

\* stats[userId] = {...}
StatsEntry(mToday, mAll) ==
    [ totalMinutesToday   |-> mToday,
      totalHoursToday     |-> HoursOf(mToday),
      totalMinutesAllTime |-> mAll,
      totalHoursAllTime   |-> HoursOf(mAll) ]

\* Variant of ActiveToday: every user with records counts.
ActiveAlways(minutesToday) == TRUE

\* if (userTotalMinutesToday > 0): the user counts for today's average.
ActiveToday(minutesToday) == minutesToday > 0

\* Variant of InRoster: a user is found for every user id.
InRosterAnyone(roster, userId) == TRUE

\* users.find(u => u.id === userId) finds a user.
InRoster(roster, userId) == \E u \in roster : u.id = userId

\* The state of the accumulators before the forEach over the user keys.
NoUsersProcessed ==
    [ processed |-> <<>>, stats |-> [u \in {} |-> 0],
      activeMinutes |-> 0, usersWithHoursToday |-> 0 ]

\* One iteration of the forEach over Object.keys(recordsByUserAndDate), from
\* the accumulators prev; a user id that is not in the roster is skipped.
\* activeMinutes is 60 * totalHoursToday.
ProcessUser(records, roster, userId, now, prev) ==
    IF ~InRoster(roster, userId) THEN prev
    ELSE LET u == ProcessDates(records, userId, DateKeys(records, userId), now)
         IN  [ processed |-> prev.processed \o u.processed,
               stats |->
                   [k \in DOMAIN prev.stats \cup {userId} |->
                       IF k = userId
                       THEN StatsEntry(u.minutesToday, u.minutesAllTime)
                       ELSE prev.stats[k]],
               activeMinutes |->
                   IF ActiveToday(u.minutesToday)
                   THEN prev.activeMinutes + u.minutesToday
                   ELSE prev.activeMinutes,
               usersWithHoursToday |->
                   IF ActiveToday(u.minutesToday)
                   THEN prev.usersWithHoursToday + 1
                   ELSE prev.usersWithHoursToday ]

RECURSIVE ProcessUsers(_, _, _, _)
ProcessUsers(records, roster, keys, now) ==
    IF keys = <<>> THEN NoUsersProcessed
    ELSE ProcessUser(records, roster, Last(keys), now,
                     ProcessUsers(records, roster, Front(keys), now))

-----------------------------------------------------------------------------
(* Output ordering and the dashboard statistics *)

\* timeA / timeB of the comparator: the check-in's time if there is a
\* check-in, else the check-out's.
SortTime(entry) ==
    IF entry.checkIn # <<>> THEN entry.checkIn[1].timestamp
    ELSE entry.checkOut[1].timestamp

\* The comparator of processed.sort: negative when a goes first. A NaN
\* differs from every number and from itself, so with an unparsed date the
\* first return gives NaN, which sort takes for 0.
CompareEntries(a, b, parses) ==
    IF ParseDate(a.date, parses) = NaN \/ ParseDate(b.date, parses) = NaN
    THEN 0
    ELSE IF ParseDate(a.date, parses) # ParseDate(b.date, parses)
    THEN ParseDate(b.date, parses) - ParseDate(a.date, parses)
    ELSE CompareTimes(SortTime(b), SortTime(a))

InsertEntry(s, x, parses) ==
    LET k == Cardinality({i \in 1..Len(s) :
                             CompareEntries(s[i], x, parses) <= 0})
    IN  SubSeq(s, 1, k) \o <<x>> \o SubSeq(s, k + 1, Len(s))

\* processed.sort(...): most recent first, stable.
RECURSIVE SortProcessed(_, _)
SortProcessed(s, parses) ==
    IF s = <<>> THEN <<>>
    ELSE InsertEntry(SortProcessed(Front(s), parses), Last(s), parses)

TodayAttendanceBySessions(processed, now) ==
    Cardinality({k \in 1..Len(processed) : processed[k].date = now})

\* new Set(todayRecords.map(r => r.userId)).size, 0 for no record of today.
TodayAttendance(processed, now) ==
    Cardinality({processed[i].userId :
                    i \in {k \in 1..Len(processed) : processed[k].date = now}})

\* Number((totalHoursToday / usersWithHoursToday).toFixed(1)), in tenths:
\* the tenths nearest to activeMinutes / (60 * n). When the quotient lies
\* exactly between two tenths the digit depends on the binary rounding of
\* the floating-point sum and quotient, so both neighbours are outcomes.
AvgHoursToday(activeMinutes, n) ==
    IF n = 0 THEN {0}
    ELSE LET q == activeMinutes \div (6 * n)
             r == activeMinutes % (6 * n)
         IN  IF 2 * r < 6 * n THEN {q}
             ELSE IF 2 * r > 6 * n THEN {q + 1}
             ELSE {q, q + 1}

\* Everything the effect's body computes from its two snapshots and the
\* date it reads from the clock, on a device where Date parses the locale's
\* dates or does not.
Reconcile(records, roster, now, parses) ==
    LET r         == ProcessUsers(records, roster, UserKeys(records), now)
        processed == SortProcessed(r.processed, parses)
    IN  [ processed           |-> processed,
          stats               |-> r.stats,
          totalUsers          |-> Cardinality(roster),
          checkedInUsers      |-> Cardinality({u \in roster : u.checkedIn}),
          todayAttendance     |-> TodayAttendance(processed, now),
          activeMinutes       |-> r.activeMinutes,
          usersWithHoursToday |-> r.usersWithHoursToday ]

\* The argument of setDashboardStats, avg being the outcome of toFixed.
DashboardOf(out, avg) ==
    [ totalUsers      |-> out.totalUsers,
      checkedInUsers  |-> out.checkedInUsers,
      todayAttendance |-> out.todayAttendance,
      avgHoursToday   |-> avg ]

-----------------------------------------------------------------------------
(* The component's state and its operations *)

\* useState's initial values of the derived state.
NoSessions == <<>>
NoStats == [u \in {} |-> 0]
ZeroDashboard ==
    [ totalUsers |-> 0, checkedInUsers |-> 0, todayAttendance |-> 0,
      avgHoursToday |-> 0 ]

\* The condition under which the body of the effect runs.
EffectRuns(records, roster) == Len(records) > 0 /\ roster # {}

\* useEffect(..., [attendanceRecords, users]) for the snapshots just set.
\* The clock never goes back between two runs.
ReconcileEffect(records, roster) ==
    IF EffectRuns(records, roster)
    THEN \E now \in Days :
           /\ now >= today
           /\ today' = now
           /\ \E out \in {Reconcile(records, roster, now, dateParses)} :
                  /\ processedAttendance' = out.processed
                  /\ userStats' = out.stats
                  /\ \E avg \in AvgHoursToday(out.activeMinutes,
                                              out.usersWithHoursToday) :
                        dashboardStats' = DashboardOf(out, avg)
    ELSE UNCHANGED <<processedAttendance, userStats, dashboardStats, today>>

\* Variant of InputAfterRun: the sort of a day's records is done on the
\* array of attendanceRecords itself.
InputSortedInPlace(records, roster) ==
    IF EffectRuns(records, roster) THEN SortByTimestamp(records) ELSE records

\* The array held in attendanceRecords as the effect leaves it. The effect
\* only iterates it (forEach); what it sorts and splices are the arrays it
\* creates itself for the buckets and fills by push, and it writes to no
\* record object, so the array has the elements it had, in their order.
InputAfterRun(records, roster) == records

\* records.push({ id: doc.id, ...doc.data() }) for each document of a query
\* result: the objects of one fetch, numbered in the order of the result.
Numbered(docs) ==
    [i \in 1..Len(docs) |->
        [ id |-> i, userId |-> docs[i].userId, type |-> docs[i].type,
          timestamp |-> docs[i].timestamp ]]

\* The document of a record object.
DocOf(record) ==
    [ userId |-> record.userId, type |-> record.type,
      timestamp |-> record.timestamp ]

\* The documents behind the records of a snapshot.
DocsOf(records) == [i \in 1..Len(records) |-> DocOf(records[i])]

\* orderBy('timestamp', 'desc'): the results of the query over collections
\* of at most n documents drawn from docs; documents of one timestamp come
\* in any order.
RECURSIVE QueryResultsOver(_, _)
QueryResultsOver(docs, n) ==
    IF n = 0 THEN {<<>>}
    ELSE LET shorter == QueryResultsOver(docs, n - 1)
         IN  shorter \cup
             { Append(l, d) :
                 <<l, d>> \in
                     { x \in shorter \X docs :
                         /\ Len(x[1]) = n - 1
                         /\ n > 1 =>
                              x[1][n - 1].timestamp >= x[2].timestamp } }

QueryResultsUpTo(n) == QueryResultsOver(Docs, n)

\* The query results a fetch can see after the snapshot cur: the collection
\* unchanged, emptied, or with one more document while it has fewer than n.
QueryResultsWithin(cur, n) ==
    {<<>>, cur}
    \cup { Numbered( SubSeq(DocsOf(cur), 1, x[1]) \o <<x[2]>>
                     \o SubSeq(DocsOf(cur), x[1] + 1, Len(cur)) ) :
             x \in { y \in (0..Len(cur)) \X Docs :
                       /\ Len(cur) < n
                       /\ y[1] > 0 =>
                            cur[y[1]].timestamp >= y[2].timestamp
                       /\ y[1] < Len(cur) =>
                            cur[y[1] + 1].timestamp <= y[2].timestamp } }

QueryResults(cur) == QueryResultsWithin(cur, MaxDocs)

\* The query results of a first load that hold events with an unparseable
\* timestamp: up to MaxInvalidEvents of them, wherever the ordering of the
\* query puts their values, and at most one event with a valid timestamp, so
\* that the comparator of processed.sort stays consistent and the order of
\* its result is the one the language defines.
InvalidQueryResults ==
    LET bad == UNION { [1..k -> InvalidDocs] : k \in 1..MaxInvalidEvents }
    IN  bad \cup
        { SubSeq(x[1], 1, x[2]) \o <<x[3]>>
              \o SubSeq(x[1], x[2] + 1, Len(x[1])) :
            x \in { y \in bad \X (0..MaxInvalidEvents) \X Docs :
                      y[2] <= Len(y[1]) } }

\* What checkAdminAccess can find in users/{uid}: no document, a document
\* without the isAdmin field, one whose isAdmin is false, one whose isAdmin
\* is true.
DocStates == {"missing", "noIsAdmin", "notAdmin", "admin"}

\* The three fetches fetchData awaits.
Fetches == {"users", "attendance", "office"}

\* The screen of a signed-in admin whose access check has passed and whose
\* first fetchData has settled.
Admitted ==
    [ pc |-> "done", currentUser |-> TRUE, docAtMount |-> "admin",
      userDoc |-> "admin", fetchDataCalled |-> TRUE, loading |-> FALSE,
      pending |-> {}, redirected |-> FALSE, error |-> FALSE ]

\* Variant of AccessVerdict: a user whose isAdmin is false is let in.
AccessVerdictLenient(userDoc) ==
    IF userDoc \in {"missing", "noIsAdmin"} THEN "write" ELSE "fetch"

\* The branch checkAdminAccess takes on the document it has read: write the
\* user as an admin first, turn the user away, or fetch.
AccessVerdict(userDoc) ==
    IF userDoc \in {"missing", "noIsAdmin"} THEN "write"
    ELSE IF userDoc = "notAdmin" THEN "deny"
    ELSE "fetch"

\* fetchData(): setLoading(true) and the three fetches are started.
CallFetchData(a) ==
    [a EXCEPT !.fetchDataCalled = TRUE, !.loading = TRUE, !.pending = Fetches]

\* One of the fetches of Promise.all settles; after the last,
\* setLoading(false).
Settled(a, fetch) ==
    [a EXCEPT !.pending = a.pending \ {fetch},
              !.loading = (a.pending \ {fetch} # {})]

\* The catch of checkAdminAccess: an alert whose OK redirects to login.
Failed(a) == [a EXCEPT !.pc = "done", !.error = TRUE]

\* router.replace('/(auth)/login') is scheduled.
Redirected(a) == [a EXCEPT !.pc = "done", !.redirected = TRUE]

\* The device's locale and engine are fixed while the screen is open.
Init ==
    /\ dateParses \in BOOLEAN
    /\ attendanceRecords = <<>>
    /\ users = {}
    /\ processedAttendance = NoSessions
    /\ userStats = NoStats
    /\ dashboardStats = ZeroDashboard
    /\ today = 1
    /\ access = Admitted

\* setAttendanceRecords(records), then the effect.
SetAttendanceRecords(records) ==
    /\ attendanceRecords' = InputAfterRun(records, users)
    /\ users' = users
    /\ dateParses' = dateParses
    /\ ReconcileEffect(records, users)

\* setUsers(usersList), then the effect.
SetUsers(usersList) ==
    /\ users' = usersList
    /\ attendanceRecords' = InputAfterRun(attendanceRecords, usersList)
    /\ dateParses' = dateParses
    /\ ReconcileEffect(attendanceRecords, usersList)

\* fetchAttendanceRecords on the screen of an admitted admin.
FetchAttendanceRecords ==
    \E records \in QueryResults(attendanceRecords) :
        /\ SetAttendanceRecords(records)
        /\ access' = access

\* fetchUsers on the screen of an admitted admin. User documents are added
\* to the collection, not removed.
FetchUsers ==
    \E usersList \in Rosters :
        /\ users \subseteq usersList
        /\ SetUsers(usersList)
        /\ access' = access

\* updateUserRole, from a button of the loaded screen:
\* setUsers(users.map(...)) is a new array, so the effect runs again;
\* isAdmin, the one field it changes, is not part of the roster as
\* reconciliation reads it, and the signed-in admin is not among the users
\* whose role the screen offers to change.
UpdateUserRole ==
    /\ ~access.loading
    /\ users # {}
    /\ SetUsers(users)
    /\ access' = access

Next ==
    \/ FetchAttendanceRecords
    \/ FetchUsers
    \/ UpdateUserRole

Spec == Init /\ [][Next]_vars

\* The screen after its first load: fetchUsers and fetchAttendanceRecords
\* have each set their snapshot once and the effect has run on the pair.
FirstLoad(records, roster, now, parses) ==
    /\ dateParses = parses
    /\ access = Admitted
    /\ attendanceRecords = InputAfterRun(records, roster)
    /\ users = roster
    /\ today = (IF EffectRuns(records, roster) THEN now ELSE 1)
    /\ IF EffectRuns(records, roster)
       THEN \E out \in {Reconcile(records, roster, now, parses)} :
                /\ processedAttendance = out.processed
                /\ userStats = out.stats
                /\ \E avg \in AvgHoursToday(out.activeMinutes,
                                            out.usersWithHoursToday) :
                      dashboardStats = DashboardOf(out, avg)
       ELSE /\ processedAttendance = NoSessions
            /\ userStats = NoStats
            /\ dashboardStats = ZeroDashboard

InitLoaded ==
    \E records \in { Numbered(l) : l \in QueryResultsUpTo(MaxEvents) },
       roster \in Rosters, now \in Days, parses \in BOOLEAN :
        FirstLoad(records, roster, now, parses)

NextLoaded == UpdateUserRole

SpecLoaded == InitLoaded /\ [][NextLoaded]_vars

\* The first loads whose query result holds unparseable timestamps.
InitInvalid ==
    \E records \in { Numbered(l) : l \in InvalidQueryResults },
       roster \in Rosters, now \in Days, parses \in BOOLEAN :
        FirstLoad(records, roster, now, parses)

SpecInvalid == InitInvalid /\ [][NextLoaded]_vars

\* The first loads whose events are all of u1 on day 1.
InitDay ==
    \E records \in { Numbered(l) : l \in QueryResultsOver(DayDocs, MaxDayEvents) },
       roster \in Rosters, now \in Days, parses \in BOOLEAN :
        FirstLoad(records, roster, now, parses)

SpecDay == InitDay /\ [][NextLoaded]_vars

\* The first loads of up to MaxArrivals events.
InitArrival ==
    \E records \in { Numbered(l) : l \in QueryResultsUpTo(MaxArrivals) },
       roster \in Rosters, now \in Days, parses \in BOOLEAN :
        FirstLoad(records, roster, now, parses)

SpecArrival == InitArrival /\ [][NextLoaded]_vars

\* The data of the screen is left as it is.
DataUnchanged ==
    UNCHANGED <<attendanceRecords, users, processedAttendance, userStats,
                dashboardStats, today, dateParses>>

\* The screen is mounted: nothing is loaded, the spinner is shown, and
\* checkAdminAccess has not started. Whether a user is signed in, and what
\* that user's document holds, is given.
InitAccess ==
    /\ dateParses \in BOOLEAN
    /\ attendanceRecords = <<>>
    /\ users = {}
    /\ processedAttendance = NoSessions
    /\ userStats = NoStats
    /\ dashboardStats = ZeroDashboard
    /\ today = 1
    /\ \E user \in BOOLEAN, userDoc \in DocStates :
           access = [ pc |-> "start", currentUser |-> user,
                      docAtMount |-> userDoc, userDoc |-> userDoc,
                      fetchDataCalled |-> FALSE, loading |-> TRUE,
                      pending |-> {}, redirected |-> FALSE, error |-> FALSE ]

\* checkAdminAccess up to its first await: without a signed-in user it
\* redirects and returns, otherwise getDoc is issued.
CheckAdminAccess ==
    /\ access.pc = "start"
    /\ access' = IF ~access.currentUser THEN Redirected(access)
                 ELSE [access EXCEPT !.pc = "getDoc"]
    /\ DataUnchanged

\* What checkAdminAccess does with the document getDoc returned, up to its
\* next await or its return.
AfterGetDoc(a) ==
    CASE AccessVerdict(a.userDoc) = "write" -> [a EXCEPT !.pc = "setDoc"]
      [] AccessVerdict(a.userDoc) = "deny" -> Redirected(a)
      [] OTHER -> CallFetchData([a EXCEPT !.pc = "done"])

\* getDoc settles: it rejects (the catch), or checkAdminAccess goes on with
\* the document.
GetDocSettles ==
    /\ access.pc = "getDoc"
    /\ \E ok \in BOOLEAN :
           access' = IF ok THEN AfterGetDoc(access) ELSE Failed(access)
    /\ DataUnchanged

\* setDoc settles: it rejects (the catch), or the user is now written as an
\* admin and fetchData is called.
SetDocSettles ==
    /\ access.pc = "setDoc"
    /\ \E ok \in BOOLEAN :
           access' = IF ok
                     THEN CallFetchData([access EXCEPT !.pc = "done",
                                                       !.userDoc = "admin"])
                     ELSE Failed(access)
    /\ DataUnchanged

\* OK of the 'Authentication error' alert: redirect to login.
DismissError ==
    /\ access.error
    /\ ~access.redirected
    /\ access' = [access EXCEPT !.redirected = TRUE]
    /\ DataUnchanged

\* fetchUsers of a fetchData in flight.
UsersFetched ==
    /\ "users" \in access.pending
    /\ \E usersList \in Rosters :
           /\ users \subseteq usersList
           /\ SetUsers(usersList)
    /\ access' = Settled(access, "users")

\* fetchAttendanceRecords of a fetchData in flight.
AttendanceFetched ==
    /\ "attendance" \in access.pending
    /\ \E records \in QueryResultsWithin(attendanceRecords, MaxAccessDocs) :
           SetAttendanceRecords(records)
    /\ access' = Settled(access, "attendance")

\* fetchOfficeLocation of a fetchData in flight.
OfficeLocationFetched ==
    /\ "office" \in access.pending
    /\ access' = Settled(access, "office")
    /\ DataUnchanged

\* onRefresh, from the RefreshControl of the loaded screen: fetchData.
OnRefresh ==
    /\ ~access.loading
    /\ access' = CallFetchData(access)
    /\ DataUnchanged

NextAccess ==
    \/ CheckAdminAccess
    \/ GetDocSettles
    \/ SetDocSettles
    \/ DismissError
    \/ UsersFetched
    \/ AttendanceFetched
    \/ OfficeLocationFetched
    \/ OnRefresh
    \/ UpdateUserRole

SpecAccess == InitAccess /\ [][NextAccess]_vars

-----------------------------------------------------------------------------
(* Vocabulary of the properties *)

\* The published state is what the effect computed from the two snapshots
\* now in the state.
Ran == EffectRuns(attendanceRecords, users)

SessionIdx == 1..Len(processedAttendance)

Paired(s) == s.checkIn # <<>> /\ s.checkOut # <<>>

OpenSession(s) == s.checkIn # <<>> /\ s.checkOut = <<>>

OrphanSession(s) == s.checkIn = <<>> /\ s.checkOut # <<>>

\* The events of the input, and those of users of the roster.
RecordSet == {attendanceRecords[i] : i \in 1..Len(attendanceRecords)}

RosterRecords == {r \in RecordSet : \E u \in users : u.id = r.userId}

SameBucket(a, b) ==
    /\ a.userId = b.userId
    /\ ToLocaleDateString(a.timestamp) = ToLocaleDateString(b.timestamp)

\* Check-out o is the check-out of a Session whose check-in is another
\* check-in than c, not later than c.
ClaimedBefore(o, c) ==
    \E k \in SessionIdx :
        /\ processedAttendance[k].checkOut = <<o>>
        /\ processedAttendance[k].checkIn # <<>>
        /\ processedAttendance[k].checkIn[1] # c
        /\ processedAttendance[k].checkIn[1].timestamp <= c.timestamp

\* The check-outs check-in c can be paired with: of its bucket, strictly
\* later than c, and not claimed by an earlier check-in.
Available(c) ==
    { o \in RosterRecords :
        /\ o.type = "check-out"
        /\ SameBucket(o, c)
        /\ o.timestamp > c.timestamp
        /\ ~ClaimedBefore(o, c) }

\* The sum of durationMinutes over the Sessions of seq that belong to
\* userId, have both endpoints and a date in dates.
RECURSIVE SumPairedMinutes(_, _, _)
SumPairedMinutes(seq, userId, dates) ==
    IF seq = <<>> THEN 0
    ELSE SumPairedMinutes(Front(seq), userId, dates)
         + (IF /\ Last(seq).userId = userId
               /\ Paired(Last(seq))
               /\ Last(seq).date \in dates
            THEN Last(seq).duration[1]
            ELSE 0)

AllDates == {ToLocaleDateString(At[i]) : i \in DOMAIN At}

\* The users with minutes today, and the sum of their minutes today.
ActiveUsers == {u \in DOMAIN userStats : userStats[u].totalMinutesToday > 0}

RECURSIVE SumMinutesToday(_)
SumMinutesToday(ids) ==
    IF ids = {} THEN 0
    ELSE LET u == CHOOSE x \in ids : TRUE
         IN  userStats[u].totalMinutesToday + SumMinutesToday(ids \ {u})

-----------------------------------------------------------------------------
(* C1 *)

\* C1: for every check-in of a bucket the run processed there is a Session
\* with that check-in; its check-out is an available check-out (same bucket,
\* strictly later, not claimed by an earlier check-in) than which no
\* available check-out is earlier, and it is null exactly when no check-out
\* is available.
C1_EarliestAvailableCheckOut ==
    Ran =>
      \A c \in RosterRecords :
        c.type = "check-in" =>
          \E i \in SessionIdx :
            LET s == processedAttendance[i]
            IN  /\ s.checkIn = <<c>>
                /\ IF Available(c) = {}
                   THEN s.checkOut = <<>>
                   ELSE /\ s.checkOut # <<>>
                        /\ s.checkOut[1] \in Available(c)
                        /\ \A o \in Available(c) :
                              s.checkOut[1].timestamp <= o.timestamp

\* Scenario 2: check-ins at 21:50:00 and 21:52:30 and one check-out at
\* 23:50:00 in one bucket; the first check-in has the check-out, the second
\* is open.
C1_Witness ==
    /\ Ran
    /\ \E i, j \in SessionIdx :
         LET a == processedAttendance[i]
             b == processedAttendance[j]
         IN  /\ a.userId = b.userId /\ a.date = b.date
             /\ Paired(a) /\ OpenSession(b)
             /\ a.checkIn[1].timestamp = At[1]
             /\ b.checkIn[1].timestamp = At[2]
             /\ a.checkOut[1].timestamp = At[3]

-----------------------------------------------------------------------------
(* C2 *)

\* C2: no two Sessions of the published list reference the same check-out
\* event, and no two reference the same check-in event.
C2_NoDoublePairing ==
    \A i, j \in SessionIdx :
        i # j =>
          LET a == processedAttendance[i]
              b == processedAttendance[j]
          IN  /\ a.checkOut # <<>> => a.checkOut # b.checkOut
              /\ a.checkIn # <<>> => a.checkIn # b.checkIn

\* Two paired Sessions in one bucket: the second check-in had to pass over
\* the check-out the first one took.
C2_Witness ==
    /\ Ran
    /\ \E i, j \in SessionIdx :
         LET a == processedAttendance[i]
             b == processedAttendance[j]
         IN  /\ i # j /\ Paired(a) /\ Paired(b)
             /\ a.userId = b.userId /\ a.date = b.date
             /\ a.checkIn[1].timestamp < b.checkIn[1].timestamp

-----------------------------------------------------------------------------
(* C3 *)

\* C3 as stated: after a run the number of Sessions with a check-in is the
\* number of check-in events of the input, and every check-out event of the
\* input is the check-out of exactly one Session.
C3_ConservationOfAllEvents ==
    Ran =>
      /\ Cardinality({i \in SessionIdx : processedAttendance[i].checkIn # <<>>})
           = Cardinality({r \in RecordSet : r.type = "check-in"})
      /\ \A r \in RecordSet :
           r.type = "check-out" =>
             Cardinality({i \in SessionIdx :
                             processedAttendance[i].checkOut = <<r>>}) = 1

\* C3 amended: after a run every check-in event of a user of the roster is
\* the check-in of exactly one Session, every check-out event of a user of
\* the roster is the check-out of exactly one Session, and the Sessions
\* reference no other events.
C3_ConservationOfRosterEvents ==
    Ran =>
      /\ \A r \in RosterRecords :
           /\ r.type = "check-in" =>
                Cardinality({i \in SessionIdx :
                                processedAttendance[i].checkIn = <<r>>}) = 1
           /\ r.type = "check-out" =>
                Cardinality({i \in SessionIdx :
                                processedAttendance[i].checkOut = <<r>>}) = 1
      /\ \A i \in SessionIdx :
           LET s == processedAttendance[i]
           IN  /\ s.checkIn # <<>> =>
                    s.checkIn[1] \in RosterRecords
                    /\ s.checkIn[1].type = "check-in"
               /\ s.checkOut # <<>> =>
                    s.checkOut[1] \in RosterRecords
                    /\ s.checkOut[1].type = "check-out"

\* A run over an input with an event of a user outside the roster, in which
\* a check-out was matched (spliced out during the scan) and another was
\* left over as an orphan.
C3_Witness ==
    /\ Ran
    /\ RosterRecords # RecordSet
    /\ \E i, j \in SessionIdx :
         /\ Paired(processedAttendance[i])
         /\ OrphanSession(processedAttendance[j])

-----------------------------------------------------------------------------
(* C4 *)

\* C4: a Session with both endpoints has a check-out strictly later than its
\* check-in and a duration d >= 0 that is the time difference in minutes
\* rounded to the nearest whole minute (a half rounds up); a Session without
\* both endpoints has no duration.
C4_DurationRounded ==
    \A i \in SessionIdx :
        LET s == processedAttendance[i]
        IN  IF Paired(s)
            THEN /\ s.checkOut[1].timestamp > s.checkIn[1].timestamp
                 /\ s.duration # <<>>
                 /\ LET d  == s.duration[1]
                        ms == s.checkOut[1].timestamp - s.checkIn[1].timestamp
                    IN  /\ d >= 0
                        /\ 2 * d * MinuteMs <= 2 * ms + MinuteMs
                        /\ 2 * d * MinuteMs > 2 * ms - MinuteMs
            ELSE s.duration = <<>>

\* A paired Session of two and a half minutes, published as 3 minutes.
C4_Witness ==
    /\ Ran
    /\ \E i \in SessionIdx :
         LET s == processedAttendance[i]
         IN  /\ Paired(s)
             /\ 2 * (s.checkOut[1].timestamp - s.checkIn[1].timestamp)
                  = 5 * MinuteMs
             /\ s.duration = <<3>>

-----------------------------------------------------------------------------
(* C5 *)

\* C5: every published Session has a check-in or a check-out.
C5_NoDanglingSession ==
    \A i \in SessionIdx :
        \/ processedAttendance[i].checkIn # <<>>
        \/ processedAttendance[i].checkOut # <<>>

\* A run that produced an open Session and an orphan check-out.
C5_Witness ==
    /\ Ran
    /\ \E i, j \in SessionIdx :
         /\ OpenSession(processedAttendance[i])
         /\ OrphanSession(processedAttendance[j])

-----------------------------------------------------------------------------
(* C6 *)

\* C6: each endpoint of a Session is an event of the Session's user on the
\* Session's date, so the two endpoints of a paired Session are of one user
\* and one local calendar date; and no Session pairs a check-in with a
\* check-out of another local date.
C6_NoPairAcrossBuckets ==
    /\ \A i \in SessionIdx :
         LET s == processedAttendance[i]
         IN  /\ s.checkIn # <<>> =>
                  /\ s.checkIn[1].userId = s.userId
                  /\ ToLocaleDateString(s.checkIn[1].timestamp) = s.date
             /\ s.checkOut # <<>> =>
                  /\ s.checkOut[1].userId = s.userId
                  /\ ToLocaleDateString(s.checkOut[1].timestamp) = s.date
    /\ \A i \in SessionIdx :
         Paired(processedAttendance[i]) =>
             SameBucket(processedAttendance[i].checkIn[1],
                        processedAttendance[i].checkOut[1])

\* Scenario 5: a check-in at 23:50 of day 1 and a check-out at 00:10 of
\* day 2 of one user, published as an open Session of day 1 and an orphan
\* check-out of day 2.
C6_Witness ==
    /\ Ran
    /\ \E i, j \in SessionIdx :
         LET a == processedAttendance[i]
             b == processedAttendance[j]
         IN  /\ a.userId = b.userId
             /\ OpenSession(a) /\ a.checkIn[1].timestamp = At[3] /\ a.date = 1
             /\ OrphanSession(b) /\ b.checkOut[1].timestamp = At[4]
             /\ b.date = 2

-----------------------------------------------------------------------------
(* C7 *)

\* C7: for every user with stats, totalMinutesAllTime is the sum of the
\* durations of that user's Sessions with both endpoints, and
\* totalMinutesToday the sum over those of them dated today; Sessions
\* without both endpoints add nothing.
C7_MinuteTotals ==
    \A u \in DOMAIN userStats :
        /\ userStats[u].totalMinutesAllTime
             = SumPairedMinutes(processedAttendance, u, AllDates)
        /\ userStats[u].totalMinutesToday
             = SumPairedMinutes(processedAttendance, u, {today})

\* A user with minutes today and more minutes all-time.
C7_Witness ==
    /\ Ran
    /\ \E u \in DOMAIN userStats :
         /\ userStats[u].totalMinutesToday > 0
         /\ userStats[u].totalMinutesAllTime > userStats[u].totalMinutesToday

-----------------------------------------------------------------------------
(* C8 *)

\* C8 as stated: after a run every user of the roster has an entry in
\* userStats.
C8_EveryRosterMemberHasStats ==
    Ran => \A u \in users : u.id \in DOMAIN userStats

-----------------------------------------------------------------------------
(* C9 *)

\* C9 as stated: when the event list or the roster is empty the consumer
\* sees an empty Session list, no user with minutes, and zero attendance
\* and average.
C9_EmptyInputGivesEmptyOutput ==
    ~Ran =>
      /\ processedAttendance = <<>>
      /\ \A u \in DOMAIN userStats :
           /\ userStats[u].totalMinutesToday = 0
           /\ userStats[u].totalMinutesAllTime = 0
      /\ dashboardStats.todayAttendance = 0
      /\ dashboardStats.avgHoursToday = 0

-----------------------------------------------------------------------------
(* C10 *)

\* C10: after a run avgHoursToday is 0 when no user has minutes today, and
\* otherwise a tenth of an hour nearest to the exact quotient of the summed
\* minutes of the users with minutes today by 60 times their number; with a
\* roster of 3 of whom exactly one has minutes today, 120 of them, it is 2.0.
C10_AvgHoursToday ==
    Ran =>
      LET n == Cardinality(ActiveUsers)
          m == SumMinutesToday(ActiveUsers)
          a == dashboardStats.avgHoursToday
      IN  /\ n = 0 => a = 0
          /\ n > 0 => /\ a * 6 * n - m <= 3 * n
                      /\ m - a * 6 * n <= 3 * n
          /\ (Cardinality(users) = 3 /\ n = 1 /\ m = 120) => a = 20

\* Scenario 4 with a second user that has stats but no minutes today: a
\* roster of 3, one user with 120 minutes today, avgHoursToday 2.0.
C10_Witness ==
    /\ Ran
    /\ Cardinality(users) = 3
    /\ Cardinality(ActiveUsers) = 1
    /\ Cardinality(DOMAIN userStats) = 2
    /\ SumMinutesToday(ActiveUsers) = 120
    /\ dashboardStats.avgHoursToday = 20

-----------------------------------------------------------------------------
(* C11 *)

\* The users with at least one published Session dated today.
UsersSeenToday ==
    { u \in {r.userId : r \in RecordSet} :
        \E i \in SessionIdx :
            /\ processedAttendance[i].userId = u
            /\ processedAttendance[i].date = today }

\* C11: after a run todayAttendance is the number of distinct userIds that
\* have at least one Session dated today; a user whose Sessions of today are
\* all open or orphan counts, and a user with several Sessions today counts
\* once.
C11_TodayAttendance ==
    Ran => dashboardStats.todayAttendance = Cardinality(UsersSeenToday)

\* One user with two Sessions today and another whose only Session today is
\* an orphan check-out or an open check-in: todayAttendance is 2.
C11_Witness ==
    /\ Ran
    /\ dashboardStats.todayAttendance = 2
    /\ \E i, j, k \in SessionIdx :
         LET a == processedAttendance[i]
             b == processedAttendance[j]
             c == processedAttendance[k]
         IN  /\ i # j /\ a.userId = b.userId
             /\ a.date = today /\ b.date = today /\ c.date = today
             /\ c.userId # a.userId
             /\ ~Paired(c)
             /\ \A l \in SessionIdx :
                  (processedAttendance[l].userId = c.userId
                   /\ processedAttendance[l].date = today)
                  => ~Paired(processedAttendance[l])

-----------------------------------------------------------------------------
(* C12 *)

\* C12 as stated: whatever the event set, totalUsers is the size of the
\* roster and checkedInUsers the number of its users whose checkedIn is
\* true.
C12_RosterCounts ==
    /\ dashboardStats.totalUsers = Cardinality(users)
    /\ dashboardStats.checkedInUsers =
          Cardinality({u \in users : u.checkedIn})

-----------------------------------------------------------------------------
(* C13 *)

\* C13 as stated: an event whose timestamp is missing or unparseable makes
\* the whole reconciliation fail with no partial result, so the first load
\* of an input holding such an event publishes nothing: the Session list,
\* the stats and the dashboard keep their initial values.
C13_InvalidTimestampFailsRun ==
    (\E r \in RecordSet : r.timestamp = NaN) =>
        /\ processedAttendance = NoSessions
        /\ userStats = NoStats
        /\ dashboardStats = ZeroDashboard

-----------------------------------------------------------------------------
(* C14 *)

\* The input without the events whose userId is absent from the roster; the
\* remaining record objects are the same objects.
KnownRecords ==
    SelectSeq(attendanceRecords,
              LAMBDA r : \E u \in users : u.id = r.userId)

\* C14: events whose userId is absent from the roster do not fail the run
\* (it publishes the roster's size) and contribute nothing: when the input
\* has such events, the published Sessions, the per-user stats and
\* avgHoursToday are those the same roster and date give for the input
\* without these events.
C14_UnknownUserSkipped ==
    (Ran /\ KnownRecords # attendanceRecords) =>
      \E out \in {Reconcile(KnownRecords, users, today, dateParses)} :
          /\ dashboardStats.totalUsers = Cardinality(users)
          /\ processedAttendance = out.processed
          /\ userStats = out.stats
          /\ dashboardStats.avgHoursToday
                 \in AvgHoursToday(out.activeMinutes,
                                   out.usersWithHoursToday)

\* u2, absent from the roster, has a check-in and a check-out in the input,
\* the first event of the input among them, and u1 has a paired Session with
\* minutes today.
C14_Witness ==
    /\ Ran
    /\ Len(KnownRecords) + 2 = Len(attendanceRecords)
    /\ attendanceRecords[1].userId = "u2"
    /\ \E r \in RecordSet : r.userId = "u2" /\ r.type = "check-in"
    /\ \E r \in RecordSet : r.userId = "u2" /\ r.type = "check-out"
    /\ \E i \in SessionIdx : Paired(processedAttendance[i])
    /\ "u1" \in ActiveUsers

-----------------------------------------------------------------------------
(* C16 *)

\* C16 as stated: the published Session list is sorted by date, latest
\* first, and within one date by the timestamp of the check-in if the
\* Session has one and of the check-out otherwise, latest first.
C16_SortedByDateThenTime ==
    \A i \in SessionIdx :
        i < Len(processedAttendance) =>
          LET a == processedAttendance[i]
              b == processedAttendance[i + 1]
          IN  \/ a.date > b.date
              \/ a.date = b.date /\ SortTime(a) >= SortTime(b)

-----------------------------------------------------------------------------
(* C17 *)

\* C17 as stated: the published state is exactly what reconciling the
\* current snapshots alone gives, whatever was reconciled before: the
\* outputs of the run on them or, for snapshots on which no run takes place,
\* the state of a screen that has reconciled nothing.
C17_RebuiltFromCurrentSnapshots ==
    IF Ran
    THEN \E out \in {Reconcile(attendanceRecords, users, today, dateParses)} :
             /\ processedAttendance = out.processed
             /\ userStats = out.stats
             /\ \E avg \in AvgHoursToday(out.activeMinutes,
                                         out.usersWithHoursToday) :
                   dashboardStats = DashboardOf(out, avg)
    ELSE /\ processedAttendance = NoSessions
         /\ userStats = NoStats
         /\ dashboardStats = ZeroDashboard

-----------------------------------------------------------------------------
(* C18 *)

-----------------------------------------------------------------------------
(* C19 *)

\* C19: for every user with stats, the minutes of today are at most the
\* minutes of all time.
C19_TodayWithinAllTime ==
    \A u \in DOMAIN userStats :
        userStats[u].totalMinutesToday <= userStats[u].totalMinutesAllTime

\* One user all of whose minutes are of today and another with minutes of
\* an earlier day only.
C19_Witness ==
    /\ Ran
    /\ \E u, v \in DOMAIN userStats :
         /\ userStats[u].totalMinutesToday > 0
         /\ userStats[u].totalMinutesToday = userStats[u].totalMinutesAllTime
         /\ userStats[v].totalMinutesToday = 0
         /\ userStats[v].totalMinutesAllTime > 0

-----------------------------------------------------------------------------
(* C20 *)

\* The check-outs of the bucket of check-out o that have o's timestamp.
TiedWith(o) ==
    { t \in RosterRecords :
        /\ t.type = "check-out"
        /\ t # o
        /\ SameBucket(t, o)
        /\ t.timestamp = o.timestamp }

\* C20: when a check-in is paired with a check-out, every check-out of the
\* bucket with the same timestamp that comes before it in the input was
\* already claimed by an earlier check-in, so among unclaimed check-outs of
\* one timestamp the first in input order is taken; every one that comes
\* after it in the input is in a Session of its own, as the check-out of
\* another check-in or as an orphan.
C20_TieBrokenByInputOrder ==
    Ran =>
      \A i \in SessionIdx :
        LET s == processedAttendance[i]
        IN  Paired(s) =>
              \A t \in TiedWith(s.checkOut[1]) :
                  /\ t.id < s.checkOut[1].id =>
                        ClaimedBefore(t, s.checkIn[1])
                  /\ t.id > s.checkOut[1].id =>
                        \E k \in SessionIdx :
                            /\ k # i
                            /\ processedAttendance[k].checkOut = <<t>>

\* A check-in, and two check-outs of its bucket with one timestamp, later
\* than the check-in: the check-in has the one that is first in the input
\* and the other is an orphan.
C20_Witness ==
    /\ Ran
    /\ \E i, k \in SessionIdx :
         LET s == processedAttendance[i]
             r == processedAttendance[k]
         IN  /\ Paired(s) /\ OrphanSession(r)
             /\ r.checkOut[1] \in TiedWith(s.checkOut[1])
             /\ s.checkOut[1].id < r.checkOut[1].id
             /\ \A t \in TiedWith(s.checkOut[1]) : t = r.checkOut[1]

-----------------------------------------------------------------------------
(* C21 *)

\* The events of the (user, day) bucket of event r that the run processed.
BucketOf(r) == {e \in RosterRecords : SameBucket(e, r)}

\* The pairs a valid matching of the bucket of r may use: a check-in and a
\* strictly later check-out.
FeasiblePairs(r) ==
    { p \in BucketOf(r) \X BucketOf(r) :
        /\ p[1].type = "check-in"
        /\ p[2].type = "check-out"
        /\ p[1].timestamp < p[2].timestamp }

\* No event is used by two pairs of M.
IsMatching(M) ==
    \A p, q \in M : p # q => p[1] # q[1] /\ p[2] # q[2]

\* The pairs the scan made in the bucket of r.
PairsOfScan(r) ==
    { <<processedAttendance[i].checkIn[1], processedAttendance[i].checkOut[1]>> :
        i \in { k \in SessionIdx :
                  /\ Paired(processedAttendance[k])
                  /\ SameBucket(processedAttendance[k].checkIn[1], r) } }

\* C21: in every bucket the pairs of the scan are a valid matching and no
\* valid matching of the bucket (check-outs assigned to strictly earlier
\* check-ins, each event used at most once) has more pairs; and no bucket
\* ends with an open Session and an orphan check-out later than that open
\* check-in.
C21_GreedyPairingIsMaximum ==
    Ran =>
      /\ \A r \in RosterRecords :
            /\ PairsOfScan(r) \subseteq FeasiblePairs(r)
            /\ IsMatching(PairsOfScan(r))
            /\ \A M \in SUBSET FeasiblePairs(r) :
                  IsMatching(M) =>
                      Cardinality(M) <= Cardinality(PairsOfScan(r))
      /\ \A i, j \in SessionIdx :
            LET a == processedAttendance[i]
                b == processedAttendance[j]
            IN  (OpenSession(a) /\ OrphanSession(b)
                 /\ SameBucket(a.checkIn[1], b.checkOut[1]))
                => b.checkOut[1].timestamp <= a.checkIn[1].timestamp

\* Two check-ins and then two check-outs in one bucket: four pairs are
\* feasible, so matchings of one and of two pairs exist, and the scan made
\* two.
C21_Witness ==
    /\ Ran
    /\ \E r \in RosterRecords :
         /\ Cardinality(FeasiblePairs(r)) = 4
         /\ Cardinality(PairsOfScan(r)) = 2

-----------------------------------------------------------------------------
(* C22 *)

\* C22: of two paired Sessions of one bucket, the one whose check-in is
\* earlier does not have the later check-out; so neither lies inside the
\* other, beginning after it begins and ending before it ends.
C22_FirstInFirstOut ==
    \A i, j \in SessionIdx :
        LET a == processedAttendance[i]
            b == processedAttendance[j]
        IN  (/\ Paired(a) /\ Paired(b)
             /\ a.userId = b.userId /\ a.date = b.date
             /\ a.checkIn[1].timestamp < b.checkIn[1].timestamp)
            => a.checkOut[1].timestamp <= b.checkOut[1].timestamp

\* A second check-in falls between the first check-in and its check-out,
\* and two check-outs at different times follow: the first check-in has the
\* earlier one.
C22_Witness ==
    /\ Ran
    /\ \E i, j \in SessionIdx :
         LET a == processedAttendance[i]
             b == processedAttendance[j]
         IN  /\ Paired(a) /\ Paired(b)
             /\ a.userId = b.userId /\ a.date = b.date
             /\ a.checkIn[1].timestamp < b.checkIn[1].timestamp
             /\ b.checkIn[1].timestamp < a.checkOut[1].timestamp
             /\ a.checkOut[1].timestamp < b.checkOut[1].timestamp

-----------------------------------------------------------------------------
(* C23 *)

\* The user of the bucket of r never checks in twice without a check-out in
\* between: of any two check-ins of the bucket one is earlier, and a
\* check-out of the bucket is later than it and not later than the other.
NoDoubleCheckIn(r) ==
    \A c, d \in BucketOf(r) :
        (c.type = "check-in" /\ d.type = "check-in" /\ c # d
         /\ c.timestamp <= d.timestamp)
        => \E o \in BucketOf(r) :
              /\ o.type = "check-out"
              /\ c.timestamp < o.timestamp
              /\ o.timestamp <= d.timestamp

\* Paired Sessions a and b are apart: one ends no later than the other
\* begins.
Apart(a, b) ==
    \/ a.checkOut[1].timestamp <= b.checkIn[1].timestamp
    \/ b.checkOut[1].timestamp <= a.checkIn[1].timestamp

\* C23 as stated: two paired Sessions of one bucket never overlap in time.
C23_NoOverlap ==
    \A i, j \in SessionIdx :
        LET a == processedAttendance[i]
            b == processedAttendance[j]
        IN  (/\ i # j /\ Paired(a) /\ Paired(b)
             /\ a.userId = b.userId /\ a.date = b.date)
            => Apart(a, b)

\* C23, amended: in a bucket whose user never checks in twice without a
\* check-out in between, a paired Session ends no later than any other
\* check-in of the bucket that is not earlier than its own, so no check-in
\* falls inside a paired Session and two paired Sessions never overlap.
C23_NoOverlapWithoutDoubleCheckIn ==
    Ran =>
      \A i \in SessionIdx :
        LET a == processedAttendance[i]
        IN  (Paired(a) /\ NoDoubleCheckIn(a.checkIn[1])) =>
              /\ \A d \in BucketOf(a.checkIn[1]) :
                    (d.type = "check-in" /\ d # a.checkIn[1]
                     /\ d.timestamp >= a.checkIn[1].timestamp)
                    => a.checkOut[1].timestamp <= d.timestamp
              /\ \A j \in SessionIdx :
                    LET b == processedAttendance[j]
                    IN  (/\ j # i /\ Paired(b)
                         /\ a.userId = b.userId /\ a.date = b.date)
                        => Apart(a, b)

\* Check-in, check-out, check-in, check-out at four different times of one
\* day: two paired Sessions, the first ending before the second begins.
C23_Witness ==
    /\ Ran
    /\ \E i, j \in SessionIdx :
         LET a == processedAttendance[i]
             b == processedAttendance[j]
         IN  /\ Paired(a) /\ Paired(b)
             /\ a.userId = b.userId /\ a.date = b.date
             /\ NoDoubleCheckIn(a.checkIn[1])
             /\ a.checkOut[1].timestamp < b.checkIn[1].timestamp

-----------------------------------------------------------------------------
(* C24 *)

\* The orders in which n events can arrive: the permutations of 1..n.
ArrivalOrders ==
    [ n \in 0..(MaxArrivals + 1) |->
        { f \in [1..n -> 1..n] : \A i, j \in 1..n : i # j => f[i] # f[j] } ]

\* The input, its record objects arriving in the order f.
Arrived(f) ==
    [i \in 1..Len(attendanceRecords) |-> attendanceRecords[f[i]]]

\* No two events of one bucket share a timestamp.
DistinctTimesPerBucket ==
    \A a, b \in RecordSet :
        (a # b /\ SameBucket(a, b)) => a.timestamp # b.timestamp

SessionSet(processed) == {processed[i] : i \in 1..Len(processed)}

\* C24: when no two events of one bucket share a timestamp, the run on the
\* same events in any other order of arrival gives the same set of
\* Sessions, the same userStats and the same dashboard statistics as the
\* published ones.
C24_ArrivalOrderIrrelevant ==
    (Ran /\ DistinctTimesPerBucket) =>
      \A f \in ArrivalOrders[Len(attendanceRecords)] :
        \E out \in {Reconcile(Arrived(f), users, today, dateParses)} :
            /\ SessionSet(out.processed) = SessionSet(processedAttendance)
            /\ Len(out.processed) = Len(processedAttendance)
            /\ out.stats = userStats
            /\ dashboardStats.totalUsers = out.totalUsers
            /\ dashboardStats.checkedInUsers = out.checkedInUsers
            /\ dashboardStats.todayAttendance = out.todayAttendance
            /\ dashboardStats.avgHoursToday
                   \in AvgHoursToday(out.activeMinutes,
                                     out.usersWithHoursToday)

\* Three events of different times in one bucket, a check-in and two later
\* check-outs, arrived latest first: the check-in has the earlier check-out
\* and the other is an orphan, in whatever order the three arrive.
C24_Witness ==
    /\ Ran
    /\ DistinctTimesPerBucket
    /\ Len(attendanceRecords) = 3
    /\ \E i, j \in SessionIdx :
         LET a == processedAttendance[i]
             b == processedAttendance[j]
         IN  /\ Paired(a) /\ OrphanSession(b)
             /\ a.userId = b.userId /\ a.date = b.date
             /\ a.checkOut[1].timestamp < b.checkOut[1].timestamp

\* C25: fetchData is never called, and no user or attendance data reaches the
\* screen, when no user is signed in or when the signed-in user's document
\* was read with isAdmin false: checkAdminAccess then ends in the redirect to
\* login. When the document was missing or lacked isAdmin, fetchData is called
\* only after the user has been written as an admin, and it has been called
\* once checkAdminAccess has ended with that write done.
C25_FetchOnlyAfterAccessCheck ==
    /\ (~access.currentUser \/ access.docAtMount = "notAdmin") =>
          /\ ~access.fetchDataCalled
          /\ access.pending = {}
          /\ attendanceRecords = <<>>
          /\ users = {}
          /\ (access.pc = "done" /\ ~access.error) => access.redirected
    /\ access.docAtMount \in {"missing", "noIsAdmin"} =>
          /\ access.fetchDataCalled => access.userDoc = "admin"
          /\ (access.pc = "done" /\ access.userDoc = "admin") =>
                access.fetchDataCalled

\* A user without a document has been written as an admin and the users
\* fetched after it are on the screen.
C25_Witness ==
    /\ access.docAtMount = "missing"
    /\ access.userDoc = "admin"
    /\ access.fetchDataCalled
    /\ ~access.loading
    /\ users # {}

====
